---- MODULE Spec2Model ----
(***************************************************************************)
(* Model of the website-intelligence-engine server (Express + Puppeteer).  *)
(*                                                                         *)
(* Strings are modelled as sequences of tokens: every token stands for a   *)
(* fixed run of characters ("https", ":", "/", " ", ...), concatenation of *)
(* strings is concatenation of sequences.  All tokens are lower case, so   *)
(* the case folding done by the URL parser is not exercised.               *)
(***************************************************************************)
EXTENDS Integers, Sequences, FiniteSets, TLC

VARIABLES
    browser,      \* the global `browser` handle: None (undefined) or a browser
    launched,     \* the browser processes launched so far; each is named by
                  \* the process whose puppeteer.launch() call created it
    pc,           \* position of the startup callback and of every request
    body,         \* req.body of each request
    targetUrl,    \* the handler's local `targetUrl` after normalizeUrl
    page,         \* the handler's local `page`: None (undefined) or the
                  \* browser the page was created in
    pageOpen,     \* the page context of the request: "none", "open", "closed",
                  \* or "unknown" (open or gone) once a close() has rejected
    loadSuccess,  \* the handler's local `loadSuccess`
    trace,        \* the browser operations and log lines of each request
    error,        \* the error caught by the route's catch block
    responses,    \* the HTTP responses sent for each request
    urlInput,     \* normalizeUrl: the argument
    urlOutput,    \* normalizeUrl: the returned string
    urlPc,        \* normalizeUrl: "ready" before the call, "done" after
    doc,          \* the parsed document `$` read by extractLayout / analyzeSEO
    layout,       \* the handler's local `layout`
    seo,          \* the handler's local `seo`
    seoResult,    \* the values returned by the calls of calculateSEOScore
    report,       \* the `seo` member of the handler's `result`
    scorePc,      \* position in the synchronous report assembly
    a11yDoc,      \* checkAccessibility: the parsed document
    accessibility,\* checkAccessibility: the returned issue list
    a11yPc,       \* checkAccessibility: "ready" before the call, "done" after
    techDoc,      \* detectTechStack: the `html` argument
    generator,    \* detectTechStack: the local `generator`
    scripts,      \* detectTechStack: the local `scripts`
    tech,         \* detectTechStack: the returned list
    techPc,       \* detectTechStack: position (its two awaits)
    secDoc,       \* checkSecurity: the parsed document and the raw html
    security,     \* checkSecurity: the returned findings
    secPc,        \* checkSecurity: "ready" before the call, "done" after
    shutdown,     \* the SIGTERM handler: "running", "closing", "exited",
                  \* or "rejected" when its browser.close() rejected
    closedBrowsers, \* the browsers the SIGTERM handler called close() on
    history,      \* browser page: the scan history kept in localStorage
    selectedForCompare, \* browser page: the global `selectedForCompare`
    dom,          \* browser page: the rendered history list, the checked
                  \* compare checkboxes, the Compare button, the panel
    clock,        \* browser page: the last value returned by Date.now()
    deletions     \* browser page: number of deleteFromHistory and
                  \* clearHistory calls so far

shutdownVars == <<shutdown, closedBrowsers>>
frontVars == <<history, selectedForCompare, dom, clock, deletions>>
serverVars == <<browser, launched, pc, body, targetUrl, page, pageOpen,
                loadSuccess, trace, error, responses, shutdownVars, frontVars>>
urlVars == <<urlInput, urlOutput, urlPc>>
scoreVars == <<doc, layout, seo, seoResult, report, scorePc>>
a11yVars == <<a11yDoc, accessibility, a11yPc>>
techVars == <<techDoc, generator, scripts, tech, techPc>>
secVars == <<secDoc, security, secPc>>
\* Everything the request handlers and the startup callback leave alone.
pureVars == <<urlVars, scoreVars, a11yVars, techVars, secVars,
              shutdownVars, frontVars>>
vars == <<browser, launched, pc, body, targetUrl, page, pageOpen,
          loadSuccess, trace, error, responses, urlInput, urlOutput, urlPc,
          doc, layout, seo, seoResult, report, scorePc,
          a11yDoc, accessibility, a11yPc,
          techDoc, generator, scripts, tech, techPc,
          secDoc, security, secPc,
          shutdown, closedBrowsers,
          history, selectedForCompare, dom, clock, deletions>>

\* The parts of the program a specification does not exercise stay as they
\* are when the module is loaded.
ScoreIdle ==
    /\ doc = <<>>
    /\ layout = <<>>
    /\ seo = <<>>
    /\ seoResult = <<>>
    /\ report = <<>>
    /\ scorePc = "idle"

A11yIdle ==
    /\ a11yDoc = <<>>
    /\ accessibility = <<>>
    /\ a11yPc = "idle"

TechIdle ==
    /\ techDoc = <<>>
    /\ generator = <<>>
    /\ scripts = <<>>
    /\ tech = <<>>
    /\ techPc = "idle"

SecIdle ==
    /\ secDoc = <<>>
    /\ security = <<>>
    /\ secPc = "idle"

\* No SIGTERM has been delivered.
ShutdownIdle ==
    /\ shutdown = "running"
    /\ closedBrowsers = {}

\* The page as loaded, with an empty localStorage.
FrontIdle ==
    /\ history = <<>>
    /\ selectedForCompare = <<>>
    /\ dom = [listed |-> <<>>, checked |-> {}, compareEnabled |-> FALSE,
              panelOpen |-> FALSE, comparison |-> "none"]
    /\ clock = 0
    /\ deletions = 0

(***************************************************************************)
(* Bounds.                                                                 *)
(***************************************************************************)
NReq == 1
MaxUrlLen == 4

(***************************************************************************)
(* Strings as token sequences.                                             *)
(***************************************************************************)
AlphaTokens == {"http", "https", "mailto", "localhost"}
DigitTokens == {"3000"}
Ipv4Tokens == {"0.0.11.184", "1.201.207.56"}
InputTokens == AlphaTokens \cup DigitTokens \cup {":", "/", " "}

SeqsUpTo(S, n) == UNION {[1..k -> S] : k \in 0..n}

Min(S) == CHOOSE x \in S : \A y \in S : x <= y
Max(S) == CHOOSE x \in S : \A y \in S : x >= y

\* Index of the first element of s in the set T, Len(s) + 1 when there is none.
FirstIn(s, T) ==
    LET I == {i \in 1..Len(s) : s[i] \in T}
    IN  IF I = {} THEN Len(s) + 1 ELSE Min(I)

\* Index of the first element of s outside the set T, Len(s) + 1 when none.
FirstNotIn(s, T) ==
    LET I == {i \in 1..Len(s) : s[i] \notin T}
    IN  IF I = {} THEN Len(s) + 1 ELSE Min(I)

From(s, i) == SubSeq(s, i, Len(s))

StartsWith(s, p) == Len(s) >= Len(p) /\ SubSeq(s, 1, Len(p)) = p

HttpsPrefix == <<"https", ":", "/", "/">>

(***************************************************************************)
(* new URL(input) of the WHATWG URL standard, without a base URL.          *)
(***************************************************************************)
ParseFailure == [ok |-> FALSE]

\* Leading and trailing C0 control or space are removed from the input.
StripSpaces(s) ==
    LET I == {i \in 1..Len(s) : s[i] # " "}
    IN  IF I = {} THEN <<>> ELSE SubSeq(s, Min(I), Max(I))

\* Code points of the path percent-encode set are percent-encoded.
EncodePath(s) == [i \in 1..Len(s) |-> IF s[i] = " " THEN "%20" ELSE s[i]]

SpecialSchemes == {<<"http">>, <<"https">>}

\* The host parser for a special scheme: forbidden domain code points fail,
\* a host whose last label is a number goes through the IPv4 parser.
ParseSpecialHost(h) ==
    LET lastIp == Max({0} \cup {i \in 1..Len(h) : h[i] \in Ipv4Tokens})
        tail == From(h, lastIp + 1)
    IN  IF \E i \in 1..Len(h) : h[i] \in {" ", "%20"}
        THEN ParseFailure
        ELSE IF \E i \in 1..Len(tail) : tail[i] \in AlphaTokens
        THEN [ok |-> TRUE, host |-> h]
        ELSE IF lastIp > 0
        THEN IF Len(h) = 1 THEN [ok |-> TRUE, host |-> h] ELSE ParseFailure
        ELSE IF Len(h) = 1 THEN [ok |-> TRUE, host |-> <<"0.0.11.184">>]
        ELSE IF Len(h) = 2 THEN [ok |-> TRUE, host |-> <<"1.201.207.56">>]
        ELSE ParseFailure

\* The opaque-host parser of a non-special scheme: forbidden host code points
\* fail, everything else is kept as written.
ParseOpaqueHost(h) ==
    IF \E i \in 1..Len(h) : h[i] = " "
    THEN ParseFailure
    ELSE [ok |-> TRUE, host |-> h]

\* The port state: ASCII digits only, at most 65535; an empty port is null.
ParsePort(p) ==
    IF \E i \in 1..Len(p) : p[i] \notin DigitTokens THEN ParseFailure
    ELSE IF Len(p) > 1 THEN ParseFailure
    ELSE [ok |-> TRUE, port |-> p]

\* Authority, host and port states on the input after the slashes: a is the
\* input up to the first "/", the rest is the path.
ParseAuthority(scheme, rest, special) ==
    LET slash == FirstIn(rest, {"/"})
        a == SubSeq(rest, 1, slash - 1)
        pathIn == From(rest, slash)
        colon == FirstIn(a, {":"})
        h == SubSeq(a, 1, colon - 1)
        hasPort == colon <= Len(a)
        host == IF special THEN ParseSpecialHost(h) ELSE ParseOpaqueHost(h)
        port == IF hasPort THEN ParsePort(From(a, colon + 1))
                ELSE [ok |-> TRUE, port |-> <<>>]
        path == IF pathIn = <<>> THEN (IF special THEN <<"/">> ELSE <<>>)
                ELSE EncodePath(pathIn)
    IN  IF h = <<>> /\ (special \/ hasPort) THEN ParseFailure
        ELSE IF ~host.ok \/ ~port.ok THEN ParseFailure
        ELSE [ok |-> TRUE, scheme |-> scheme, special |-> special,
              hasHost |-> TRUE, host |-> host.host, port |-> port.port,
              path |-> path]

URLParse(input) ==
    LET s == StripSpaces(input)
        k == FirstNotIn(s, AlphaTokens \cup DigitTokens \cup Ipv4Tokens) - 1
        scheme == SubSeq(s, 1, k)
        rest == From(s, k + 2)
        special == scheme \in SpecialSchemes
    IN  IF s = <<>> \/ s[1] \notin AlphaTokens THEN ParseFailure
        ELSE IF k + 1 > Len(s) \/ s[k + 1] # ":" THEN ParseFailure
        ELSE IF special
        THEN ParseAuthority(scheme, From(rest, FirstNotIn(rest, {"/"})), TRUE)
        ELSE IF StartsWith(rest, <<"/", "/">>)
        THEN ParseAuthority(scheme, From(rest, 3), FALSE)
        ELSE [ok |-> TRUE, scheme |-> scheme, special |-> FALSE,
              hasHost |-> FALSE, host |-> <<>>, port |-> <<>>,
              path |-> IF StartsWith(rest, <<"/">>) THEN EncodePath(rest)
                       ELSE rest]

\* The protocol setter: a special scheme is never exchanged for a non-special
\* one, nor the reverse; the assignment is then ignored.
SetProtocol(url, scheme) ==
    IF url.special # (scheme \in SpecialSchemes) THEN url
    ELSE [url EXCEPT !.scheme = scheme]

\* The href getter: the URL serializer.
Href(url) ==
    url.scheme \o <<":">>
    \o (IF url.hasHost
        THEN <<"/", "/">> \o url.host
             \o (IF url.port = <<>> THEN <<>> ELSE <<":">> \o url.port)
        ELSE <<>>)
    \o url.path

normalizeUrl(input) ==
    LET parsed == URLParse(input)
    IN  IF parsed.ok
        THEN Href(SetProtocol(parsed, <<"https">>))
        ELSE HttpsPrefix \o input


(***************************************************************************)
(* The server: the startup callback (process 0) and the /analyze requests. *)
(***************************************************************************)
Startup == 0
Requests == 1..NReq
Procs == {Startup} \cup Requests
None == -1

\* Request bodies: targetUrl <<>> stands for a missing or empty targetUrl.
Bodies ==
    {[targetUrl |-> <<>>, quickMode |-> FALSE],
     [targetUrl |-> <<"localhost">>, quickMode |-> TRUE],
     [targetUrl |-> <<"http", ":", "/", "/", "mailto">>, quickMode |-> FALSE]}

\* Messages of the errors the browser operations reject with.
NavErrors ==
    {<<"Navigation timeout of N ms exceeded">>,
     <<"net::ERR_NAME_NOT_RESOLVED">>,
     <<"net::ERR_CONNECTION_REFUSED">>,
     <<"net::ERR_CERT_DATE_INVALID">>,
     <<"Protocol error: Target closed">>}
\* launch() and newPage() reject with either message; an operation on an
\* acquired page rejects with the message of a closed target.
OpErrors ==
    {<<"Protocol error: Target closed">>,
     <<"timed out. Increase the 'protocolTimeout' setting for a higher timeout if needed.">>}
PageErrors ==
    {<<"Protocol error: Target closed">>}

NoError == <<>>

Ev(op, arg, n) == [op |-> op, arg |-> arg, n |-> n]

timeoutShared(quickMode) == IF quickMode THEN 10000 ELSE 20000
waitTimeFixed(quickMode) == 3000

timeout(quickMode) == IF quickMode THEN 30000 ELSE 60000
waitTime(quickMode) == IF quickMode THEN 1000 ELSE 3000

Strategies == <<"networkidle2", "domcontentloaded", "load">>

FailedLog(i) ==
    CASE i = 1 -> "networkidle2 failed, trying domcontentloaded..."
      [] i = 2 -> "domcontentloaded failed, trying load..."

LoadedLogLast(i) == "Loaded with load event"

\* The success log line of each strategy.
LoadedLog(i) ==
    CASE i = 1 -> "Loaded with networkidle2"
      [] i = 2 -> "Loaded with domcontentloaded"
      [] i = 3 -> "Loaded with load event"

\* The error thrown when the third strategy fails.
UnableToLoad(url) ==
    <<"Unable to load ">> \o url
    \o <<". The site may be blocking automated access, experiencing issues, or taking too long to respond.">>

\* The keywords of the error categorisation that occur in a token.
KeywordsIn(tok) ==
    CASE tok = "Navigation timeout of N ms exceeded"
             -> {"Navigation timeout", "timeout"}
      [] tok = "timed out. Increase the 'protocolTimeout' setting for a higher timeout if needed."
             -> {"timeout"}
      [] tok = "timeout" -> {"timeout"}
      [] tok = "net::ERR_NAME_NOT_RESOLVED" -> {"net::ERR_NAME_NOT_RESOLVED"}
      [] tok = "net::ERR_CONNECTION_REFUSED" -> {"net::ERR_CONNECTION_REFUSED"}
      [] tok = "net::ERR_CERT_DATE_INVALID" -> {"net::ERR_CERT"}
      [] OTHER -> {}

\* String.prototype.includes
Includes(msg, kw) == \E i \in 1..Len(msg) : kw \in KeywordsIn(msg[i])

errorType(msg) ==
    IF Includes(msg, "Navigation timeout") \/ Includes(msg, "timeout")
    THEN "Timeout Error"
    ELSE IF Includes(msg, "net::ERR_NAME_NOT_RESOLVED") THEN "DNS Error"
    ELSE IF Includes(msg, "net::ERR_CONNECTION_REFUSED")
    THEN "Connection Refused"
    ELSE IF Includes(msg, "net::ERR_CERT") THEN "SSL Certificate Error"
    ELSE "Failed to analyze website"

userMessage(msg) ==
    CASE errorType(msg) = "Timeout Error"
             -> <<"The website took too long to respond.">>
      [] errorType(msg) = "DNS Error"
             -> <<"Could not resolve the domain name.">>
      [] errorType(msg) = "Connection Refused"
             -> <<"The server refused the connection.">>
      [] errorType(msg) = "SSL Certificate Error"
             -> <<"SSL certificate issue detected.">>
      [] OTHER -> msg

NoReport == [url |-> <<>>]

ErrorResponse(msg) ==
    [status |-> 500, error |-> errorType(msg), message |-> userMessage(msg),
     technicalDetails |-> msg, report |-> NoReport]

BadRequestResponse ==
    [status |-> 400, error |-> "URL required", message |-> <<>>,
     technicalDetails |-> <<>>, report |-> NoReport]

ReportResponse(url) ==
    [status |-> 200, error |-> "", message |-> <<>>,
     technicalDetails |-> <<>>, report |-> [url |-> url]]

Log(r, evs) == trace' = [trace EXCEPT ![r] = @ \o evs]
Goto(r, at) == pc' = [pc EXCEPT ![r] = at]
Send(r, resp) == responses' = [responses EXCEPT ![r] = Append(@, resp)]


(***************************************************************************)
(* initBrowser: check the handle, launch when it is unset.                 *)
(***************************************************************************)
NeedsLaunchAlways == TRUE

\* if (!browser)
NeedsLaunch == browser = None

\* browser = await puppeteer.launch(...): the call is made.
StartLaunch(p) ==
    /\ Goto(p, "launching")
    /\ UNCHANGED <<browser, launched>>

FinishLaunchKeepFirst(p) ==
    /\ launched' = launched \cup {p}
    /\ browser' = IF browser = None THEN p ELSE browser

\* The launch resolves: the new browser process is assigned to the handle.
FinishLaunch(p) ==
    /\ launched' = launched \cup {p}
    /\ browser' = p

CatchBlockNoClose(r, msg, evs) ==
    /\ error' = [error EXCEPT ![r] = msg]
    /\ Log(r, evs \o <<Ev("res.status.json", "500", 0)>>)
    /\ Goto(r, "done")
    /\ Send(r, ErrorResponse(msg))

\* The catch block of the route: close the page if there is one, then answer
\* with the categorised error.  evs are the events logged before the throw.
CatchBlock(r, msg, evs) ==
    /\ error' = [error EXCEPT ![r] = msg]
    /\ IF page[r] # None
       THEN /\ Log(r, evs \o <<Ev("page.close", "catch", 0)>>)
            /\ Goto(r, "catchClose")
            /\ UNCHANGED responses
       ELSE /\ Log(r, evs \o <<Ev("res.status.json", "500", 0)>>)
            /\ Goto(r, "done")
            /\ Send(r, ErrorResponse(msg))

\* The handler after `await initBrowser()`: validation, normalizeUrl and the
\* call of browser.newPage() on the handle h that `browser` holds then.
AfterInit(r, b, h) ==
    /\ IF b.targetUrl = <<>>
       THEN /\ Send(r, BadRequestResponse)
            /\ Log(r, <<Ev("res.status.json", "400", 0)>>)
            /\ Goto(r, "done")
            /\ UNCHANGED targetUrl
       ELSE /\ targetUrl' = [targetUrl EXCEPT ![r] = normalizeUrl(b.targetUrl)]
            /\ Log(r, <<Ev("browser.newPage", "", h)>>)
            /\ Goto(r, "newPage")
            /\ UNCHANGED responses
    /\ UNCHANGED <<page, pageOpen, loadSuccess, error>>

\* app.listen callback: await initBrowser().
Listen ==
    /\ pc[Startup] = "idle"
    /\ IF NeedsLaunch
       THEN StartLaunch(Startup)
       ELSE Goto(Startup, "done") /\ UNCHANGED <<browser, launched>>
    /\ UNCHANGED <<body, targetUrl, page, pageOpen, loadSuccess, trace, error,
                   responses, pureVars>>

StartupLaunchDone ==
    /\ pc[Startup] = "launching"
    /\ FinishLaunch(Startup)
    /\ Goto(Startup, "done")
    /\ UNCHANGED <<body, targetUrl, page, pageOpen,
                   loadSuccess, trace, error, responses, pureVars>>

\* puppeteer.launch() rejects in the startup callback: nothing catches it.
StartupLaunchFail ==
    /\ pc[Startup] = "launching"
    /\ Goto(Startup, "rejected")
    /\ UNCHANGED <<browser, launched, body, targetUrl, page,
                   pageOpen, loadSuccess, trace, error, responses, pureVars>>

\* A POST /analyze arrives: the handler runs up to its first pending await.
Arrive(r, b) ==
    /\ pc[r] = "idle"
    /\ body' = [body EXCEPT ![r] = b]
    /\ IF NeedsLaunch
       THEN /\ StartLaunch(r)
            /\ UNCHANGED <<targetUrl, page, pageOpen, loadSuccess, trace,
                           error, responses>>
       ELSE /\ AfterInit(r, b, browser)
            /\ UNCHANGED <<browser, launched>>
    /\ UNCHANGED pureVars

LaunchDone(r) ==
    /\ pc[r] = "launching"
    /\ FinishLaunch(r)
    /\ AfterInit(r, body[r], browser')
    /\ UNCHANGED <<body, pureVars>>

LaunchFail(r, msg) ==
    /\ pc[r] = "launching"
    /\ CatchBlock(r, msg, <<>>)
    /\ UNCHANGED <<browser, launched, body, targetUrl, page,
                   pageOpen, loadSuccess, pureVars>>

LastEv(r) == trace[r][Len(trace[r])]

NewPageOk(r) ==
    /\ pc[r] = "newPage"
    /\ page' = [page EXCEPT ![r] = LastEv(r).n]
    /\ pageOpen' = [pageOpen EXCEPT ![r] = "open"]
    /\ Log(r, <<Ev("page.setUserAgent", "", 0)>>)
    /\ Goto(r, "setUserAgent")
    /\ UNCHANGED <<browser, launched, body, targetUrl, loadSuccess,
                   error, responses, pureVars>>

NewPageFail(r, msg) ==
    /\ pc[r] = "newPage"
    /\ CatchBlock(r, msg, <<>>)
    /\ UNCHANGED <<browser, launched, body, targetUrl, page,
                   pageOpen, loadSuccess, pureVars>>

\* An operation on the page awaited at position `at` rejects with msg.
OpFail(r, at, msg) ==
    /\ pc[r] = at
    /\ CatchBlock(r, msg, <<>>)
    /\ UNCHANGED <<browser, launched, body, targetUrl, page,
                   pageOpen, loadSuccess, pureVars>>


(***************************************************************************)
(* The navigation strategies.                                              *)
(***************************************************************************)
GotoAt(i) ==
    CASE i = 1 -> "goto1"
      [] i = 2 -> "goto2"
      [] i = 3 -> "goto3"

\* page.goto(targetUrl, {waitUntil: Strategies[i], timeout: timeout})
NavCall(r, i) == Ev("page.goto", Strategies[i], timeout(body[r].quickMode))

FallbackSkip(i) == IF i = 1 THEN 3 ELSE 0

\* The strategy tried when strategy i has failed; 0: none is left.
Fallback(i) == IF i < 3 THEN i + 1 ELSE 0

SetUserAgentOk(r) ==
    /\ pc[r] = "setUserAgent"
    /\ Log(r, <<NavCall(r, 1)>>)
    /\ Goto(r, GotoAt(1))
    /\ UNCHANGED <<browser, launched, body, targetUrl, page,
                   pageOpen, loadSuccess, error, responses, pureVars>>

GotoOk(r, i) ==
    /\ pc[r] = GotoAt(i)
    /\ loadSuccess' = [loadSuccess EXCEPT ![r] = TRUE]
    /\ Log(r, <<Ev("console.log", LoadedLog(i), 0),
                Ev("delay", "", waitTime(body[r].quickMode))>>)
    /\ Goto(r, "delay")
    /\ UNCHANGED <<browser, launched, body, targetUrl, page,
                   pageOpen, error, responses, pureVars>>

GotoFailRethrow(r, i, msg) ==
    /\ pc[r] = GotoAt(i)
    /\ IF Fallback(i) # 0
       THEN /\ Log(r, <<Ev("console.log", FailedLog(i), 0),
                        NavCall(r, Fallback(i))>>)
            /\ Goto(r, GotoAt(Fallback(i)))
            /\ UNCHANGED <<error, responses>>
       ELSE CatchBlock(r, msg, <<>>)
    /\ UNCHANGED <<browser, launched, body, targetUrl, page,
                   pageOpen, loadSuccess, pureVars>>

\* The navigation error msg is dropped by the catch clause of the strategy.
GotoFail(r, i, msg) ==
    /\ pc[r] = GotoAt(i)
    /\ IF Fallback(i) # 0
       THEN /\ Log(r, <<Ev("console.log", FailedLog(i), 0),
                        NavCall(r, Fallback(i))>>)
            /\ Goto(r, GotoAt(Fallback(i)))
            /\ UNCHANGED <<error, responses>>
       ELSE CatchBlock(r, UnableToLoad(targetUrl[r]), <<>>)
    /\ UNCHANGED <<browser, launched, body, targetUrl, page,
                   pageOpen, loadSuccess, pureVars>>

(***************************************************************************)
(* Settle wait, snapshot, extractors, report.                              *)
(***************************************************************************)
\* An awaited operation at position `at` resolves: the handler runs on and
\* logs evs, the last of them the next awaited operation, at position `to`.
OpOk(r, at, evs, to) ==
    /\ pc[r] = at
    /\ Log(r, evs)
    /\ Goto(r, to)
    /\ UNCHANGED <<browser, launched, body, targetUrl, page,
                   pageOpen, loadSuccess, error, responses, pureVars>>

DelayDone(r) ==
    OpOk(r, "delay", <<Ev("page.screenshot", "", 0)>>, "screenshot")

ScreenshotOk(r) ==
    OpOk(r, "screenshot", <<Ev("page.content", "", 0)>>, "content")

ContentOk(r) ==
    OpOk(r, "content",
         <<Ev("extractLayout", "", 0), Ev("analyzeSEO", "", 0),
           Ev("page.$eval", "generator", 0)>>, "generator")

\* detectTechStack: the generator query; its rejection is turned into null.
GeneratorOk(r) ==
    OpOk(r, "generator", <<Ev("page.$$eval", "script", 0)>>, "scripts")

GeneratorFail(r) ==
    OpOk(r, "generator", <<Ev("page.$$eval", "script", 0)>>, "scripts")

ScriptsOk(r) ==
    OpOk(r, "scripts", <<Ev("page.evaluate", "performance", 0)>>, "evaluate")

EvaluateOk(r) ==
    OpOk(r, "evaluate",
         <<Ev("checkAccessibility", "", 0), Ev("checkSecurity", "", 0),
           Ev("calculateSEOScore", "", 0), Ev("detectTrackers", "", 0),
           Ev("page.close", "try", 0)>>, "close")

\* page.close() of the try block resolves: res.json(result).
CloseOk(r) ==
    /\ pc[r] = "close"
    /\ pageOpen' = [pageOpen EXCEPT ![r] = "closed"]
    /\ Send(r, ReportResponse(targetUrl[r]))
    /\ Log(r, <<Ev("res.json", "200", 0)>>)
    /\ Goto(r, "done")
    /\ UNCHANGED <<browser, launched, body, targetUrl, page,
                   loadSuccess, error, pureVars>>

\* page.close() of the try block rejects; the page is left open or is gone.
CloseFail(r, msg) ==
    /\ pc[r] = "close"
    /\ pageOpen' = [pageOpen EXCEPT ![r] = "unknown"]
    /\ CatchBlock(r, msg, <<>>)
    /\ UNCHANGED <<browser, launched, body, targetUrl, page,
                   loadSuccess, pureVars>>

\* page.close() of the catch block resolves: the categorised 500 response.
CatchCloseOk(r) ==
    /\ pc[r] = "catchClose"
    /\ pageOpen' = [pageOpen EXCEPT ![r] = "closed"]
    /\ Send(r, ErrorResponse(error[r]))
    /\ Log(r, <<Ev("res.status.json", "500", 0)>>)
    /\ Goto(r, "done")
    /\ UNCHANGED <<browser, launched, body, targetUrl, page,
                   loadSuccess, error, pureVars>>

\* page.close() of the catch block rejects: the handler's promise rejects.
CatchCloseFail(r) ==
    /\ pc[r] = "catchClose"
    /\ pageOpen' = [pageOpen EXCEPT ![r] = "unknown"]
    /\ Goto(r, "rejected")
    /\ UNCHANGED <<browser, launched, body, targetUrl, page,
                   loadSuccess, trace, error, responses, pureVars>>

FailingOps == {"setUserAgent", "screenshot", "content", "scripts", "evaluate"}

Init ==
    /\ browser = None
    /\ launched = {}
    /\ pc = [p \in Procs |-> "idle"]
    /\ body = [r \in Requests |-> [targetUrl |-> <<>>, quickMode |-> FALSE]]
    /\ targetUrl = [r \in Requests |-> <<>>]
    /\ page = [r \in Requests |-> None]
    /\ pageOpen = [r \in Requests |-> "none"]
    /\ loadSuccess = [r \in Requests |-> FALSE]
    /\ trace = [r \in Requests |-> <<>>]
    /\ error = [r \in Requests |-> NoError]
    /\ responses = [r \in Requests |-> <<>>]
    /\ urlInput = <<>>
    /\ urlOutput = <<>>
    /\ urlPc = "idle"
    /\ ScoreIdle /\ A11yIdle /\ TechIdle /\ SecIdle
    /\ ShutdownIdle /\ FrontIdle

Next ==
    \/ Listen
    \/ StartupLaunchDone
    \/ StartupLaunchFail
    \/ \E r \in Requests, b \in Bodies : Arrive(r, b)
    \/ \E r \in Requests : LaunchDone(r)
    \/ \E r \in Requests, msg \in OpErrors : LaunchFail(r, msg)
    \/ \E r \in Requests : NewPageOk(r)
    \/ \E r \in Requests, msg \in OpErrors : NewPageFail(r, msg)
    \/ \E r \in Requests, at \in FailingOps, msg \in PageErrors :
          OpFail(r, at, msg)
    \/ \E r \in Requests : SetUserAgentOk(r)
    \/ \E r \in Requests, i \in 1..3 : GotoOk(r, i)
    \/ \E r \in Requests, i \in 1..3, msg \in NavErrors : GotoFail(r, i, msg)
    \/ \E r \in Requests : DelayDone(r)
    \/ \E r \in Requests : ScreenshotOk(r)
    \/ \E r \in Requests : ContentOk(r)
    \/ \E r \in Requests : GeneratorOk(r)
    \/ \E r \in Requests : GeneratorFail(r)
    \/ \E r \in Requests : ScriptsOk(r)
    \/ \E r \in Requests : EvaluateOk(r)
    \/ \E r \in Requests : CloseOk(r)
    \/ \E r \in Requests, msg \in PageErrors : CloseFail(r, msg)
    \/ \E r \in Requests : CatchCloseOk(r)
    \/ \E r \in Requests : CatchCloseFail(r)

Spec == Init /\ [][Next]_vars

(***************************************************************************)
(* normalizeUrl applied to every input of at most MaxUrlLen tokens.        *)
(***************************************************************************)
UrlInit ==
    /\ browser = None
    /\ launched = {}
    /\ pc = [p \in Procs |-> "idle"]
    /\ body = [r \in Requests |-> [targetUrl |-> <<>>, quickMode |-> FALSE]]
    /\ targetUrl = [r \in Requests |-> <<>>]
    /\ page = [r \in Requests |-> None]
    /\ pageOpen = [r \in Requests |-> "none"]
    /\ loadSuccess = [r \in Requests |-> FALSE]
    /\ trace = [r \in Requests |-> <<>>]
    /\ error = [r \in Requests |-> NoError]
    /\ responses = [r \in Requests |-> <<>>]
    /\ urlInput \in SeqsUpTo(InputTokens, MaxUrlLen)
    /\ urlOutput = <<>>
    /\ urlPc = "ready"
    /\ ScoreIdle /\ A11yIdle /\ TechIdle /\ SecIdle
    /\ ShutdownIdle /\ FrontIdle

CallNormalizeUrl ==
    /\ urlPc = "ready"
    /\ urlOutput' = normalizeUrl(urlInput)
    /\ urlPc' = "done"
    /\ UNCHANGED <<urlInput, serverVars, scoreVars, a11yVars, techVars, secVars>>

\* normalizeUrl applied to the string it returned.
CallNormalizeUrlAgain ==
    /\ urlPc = "done"
    /\ urlInput' = urlOutput
    /\ urlOutput' = normalizeUrl(urlOutput)
    /\ urlPc' = "again"
    /\ UNCHANGED <<serverVars, scoreVars, a11yVars, techVars, secVars>>

UrlNext ==
    \/ CallNormalizeUrl
    \/ CallNormalizeUrlAgain

UrlSpec == UrlInit /\ [][UrlNext]_vars

(***************************************************************************)
(* Document values.  Text whose characters do not matter (a title, the     *)
(* content of a meta tag, a href) is modelled by its length; null is Null, *)
(* the undefined of a missing element or attribute is None.                *)
(***************************************************************************)
Null == -2

\* JavaScript truthiness of a string, null or undefined.
TruthyAlways(v) == TRUE

Truthy(v) == v # Null /\ v # None /\ v # 0

\* `x || null`
OrNull(v) == IF Truthy(v) THEN v ELSE Null

\* A length on each side of the two thresholds of calculateSEOScore.
TitleLengths == {60, 61}
DescriptionLengths == {160, 161}
MaxH1 == 2
MaxImages == 6
NCalls == 2

(***************************************************************************)
(* extractLayout and analyzeSEO.  Of the members of the layout record only *)
(* hasHeader and hasFooter are read by the score; the other members are    *)
(* left out.                                                               *)
(***************************************************************************)
extractLayout(d) ==
    [hasHeader |-> d.headerTag \/ d.headerAttr,
     hasFooter |-> d.footerTag \/ d.footerAttr]

analyzeSEO(d) ==
    LET title == OrNull(d.titleText)
        metaDescription == OrNull(d.metaDescription)
    IN  [title |-> title,
         titleLength |-> IF Truthy(title) THEN title ELSE 0,
         metaDescription |-> metaDescription,
         metaDescriptionLength |->
             IF Truthy(metaDescription) THEN metaDescription ELSE 0,
         h1Count |-> d.h1Count,
         h1Text |-> OrNull(d.h1Text),
         imagesWithoutAlt |-> d.imagesWithoutAlt,
         canonical |-> OrNull(d.canonical),
         openGraph |-> [title |-> OrNull(d.ogTitle),
                        description |-> OrNull(d.ogDescription),
                        image |-> OrNull(d.ogImage)]]

(***************************************************************************)
(* calculateSEOScore.                                                      *)
(***************************************************************************)
\* `const issues = []`
SharedIssues ==
    IF seoResult = <<>> THEN <<>> ELSE seoResult[Len(seoResult)].issues

FreshIssues == <<>>

\* `score -= points; issues.push(issue);`
DeductSilently(acc, points, issue) ==
    [score |-> acc.score - points, issues |-> acc.issues]

DeductAdds(acc, points, issue) ==
    [score |-> acc.score + points, issues |-> Append(acc.issues, issue)]

DeductPrepend(acc, points, issue) ==
    [score |-> acc.score - points, issues |-> <<issue>> \o acc.issues]

DeductTwice(acc, points, issue) ==
    [score |-> acc.score - 2 * points, issues |-> Append(acc.issues, issue)]

Deduct(acc, points, issue) ==
    [score |-> acc.score - points, issues |-> Append(acc.issues, issue)]

\* `Math.min(10, seo.imagesWithoutAlt * 2)`
ImagePenaltyUncapped(n) == n * 2

ImagePenalty(n) == Min({10, n * 2})

\* `${seo.imagesWithoutAlt} images without alt text`
ImagesIssue(n) == <<ToString(n), " images without alt text">>

calculateSEOScore(s, l) ==
    LET a0 == [score |-> 100, issues |-> FreshIssues]
        a1 == IF ~Truthy(s.title)
                THEN Deduct(a0, 20, <<"Missing page title">>)
              ELSE IF s.titleLength > 60
                THEN Deduct(a0, 5, <<"Title too long (>60 chars)">>)
              ELSE a0
        a2 == IF ~Truthy(s.metaDescription)
                THEN Deduct(a1, 15, <<"Missing meta description">>)
              ELSE IF s.metaDescriptionLength > 160
                THEN Deduct(a1, 5,
                            <<"Meta description too long (>160 chars)">>)
              ELSE a1
        a3 == IF s.h1Count = 0
                THEN Deduct(a2, 20, <<"No H1 heading found">>) ELSE a2
        a4 == IF s.h1Count > 1
                THEN Deduct(a3, 10, <<"Multiple H1 headings">>) ELSE a3
        a5 == IF s.imagesWithoutAlt > 0
                THEN Deduct(a4, ImagePenalty(s.imagesWithoutAlt),
                            ImagesIssue(s.imagesWithoutAlt))
              ELSE a4
        a6 == IF ~l.hasHeader
                THEN Deduct(a5, 5, <<"No header element">>) ELSE a5
        a7 == IF ~l.hasFooter
                THEN Deduct(a6, 5, <<"No footer element">>) ELSE a6
        a8 == IF ~Truthy(s.canonical)
                THEN Deduct(a7, 5, <<"No canonical URL">>) ELSE a7
        a9 == IF ~Truthy(s.openGraph.title)
                 /\ ~Truthy(s.openGraph.description)
                THEN Deduct(a8, 10, <<"Missing Open Graph tags">>) ELSE a8
    IN  [score |-> Max({a9.score, 0}), issues |-> a9.issues]

\* `seo: { ...seo, score: seoResult.score, issues: seoResult.issues }`
AssembleSeoNoIssues(s, r) ==
    [k \in DOMAIN s \cup {"score", "issues"} |->
        IF k = "score" THEN r.score
        ELSE IF k = "issues" THEN <<>> ELSE s[k]]

AssembleSeo(s, r) ==
    [k \in DOMAIN s \cup {"score", "issues"} |->
        IF k = "score" THEN r.score
        ELSE IF k = "issues" THEN r.issues ELSE s[k]]

ServerIdle ==
    /\ browser = None
    /\ launched = {}
    /\ pc = [p \in Procs |-> "idle"]
    /\ body = [r \in Requests |-> [targetUrl |-> <<>>, quickMode |-> FALSE]]
    /\ targetUrl = [r \in Requests |-> <<>>]
    /\ page = [r \in Requests |-> None]
    /\ pageOpen = [r \in Requests |-> "none"]
    /\ loadSuccess = [r \in Requests |-> FALSE]
    /\ trace = [r \in Requests |-> <<>>]
    /\ error = [r \in Requests |-> NoError]
    /\ responses = [r \in Requests |-> <<>>]
    /\ ShutdownIdle /\ FrontIdle

UrlIdle ==
    /\ urlInput = <<>>
    /\ urlOutput = <<>>
    /\ urlPc = "idle"

(***************************************************************************)
(* calculateSEOScore called NCalls times on one seo and layout record,     *)
(* while the server starts up.                                             *)
(***************************************************************************)
TextInputs(lengths) ==
    {[text |-> Null, length |-> 0]}
        \cup {[text |-> n, length |-> n] : n \in lengths}

SeoInputs ==
    {[title |-> t.text,
      titleLength |-> t.length,
      metaDescription |-> m.text,
      metaDescriptionLength |-> m.length,
      h1Count |-> h,
      h1Text |-> IF h = 0 THEN Null ELSE 1,
      imagesWithoutAlt |-> i,
      canonical |-> c,
      openGraph |-> [title |-> ot, description |-> od, image |-> Null]] :
        t \in TextInputs(TitleLengths), m \in TextInputs(DescriptionLengths),
        h \in 0..MaxH1, i \in 0..MaxImages, c \in {Null, 1},
        ot \in {Null, 1}, od \in {Null, 1}}

LayoutInputs == [hasHeader : BOOLEAN, hasFooter : BOOLEAN]

ScoreInit ==
    /\ ServerIdle /\ UrlIdle /\ A11yIdle /\ TechIdle /\ SecIdle
    /\ doc = <<>>
    /\ seo \in SeoInputs
    /\ layout \in LayoutInputs
    /\ seoResult = <<>>
    /\ report = <<>>
    /\ scorePc = "ready"

CallScore ==
    /\ scorePc = "ready"
    /\ Len(seoResult) < NCalls
    /\ seoResult' = Append(seoResult, calculateSEOScore(seo, layout))
    /\ UNCHANGED <<doc, layout, seo, report, scorePc>>
    /\ UNCHANGED <<serverVars, urlVars, a11yVars, techVars, secVars>>

ScoreNext ==
    \/ CallScore
    \/ Listen
    \/ StartupLaunchDone

ScoreSpec == ScoreInit /\ [][ScoreNext]_vars

(***************************************************************************)
(* The synchronous part of the route between page.content() and the        *)
(* result: extractLayout, analyzeSEO, calculateSEOScore, result.seo.       *)
(***************************************************************************)
Documents ==
    [titleText : {0} \cup TitleLengths,
     metaDescription : {None, 0, 160},
     h1Count : 0..MaxH1,
     h1Text : {0, 1},
     imagesWithoutAlt : 0..1,
     headerTag : BOOLEAN, headerAttr : BOOLEAN,
     footerTag : BOOLEAN, footerAttr : BOOLEAN,
     canonical : {None, 0, 1},
     ogTitle : {None, 0, 1},
     ogDescription : {None, 0, 1},
     ogImage : {None}]

ReportInit ==
    /\ ServerIdle /\ UrlIdle /\ A11yIdle /\ TechIdle /\ SecIdle
    /\ doc \in {d \in Documents : d.h1Count = 0 => d.h1Text = 0}
    /\ layout = <<>>
    /\ seo = <<>>
    /\ seoResult = <<>>
    /\ report = <<>>
    /\ scorePc = "loaded"

ExtractSignals ==
    /\ scorePc = "loaded"
    /\ layout' = extractLayout(doc)
    /\ seo' = analyzeSEO(doc)
    /\ scorePc' = "extracted"
    /\ UNCHANGED <<doc, seoResult, report>>
    /\ UNCHANGED <<serverVars, urlVars, a11yVars, techVars, secVars>>

ScoreSignals ==
    /\ scorePc = "extracted"
    /\ seoResult' = <<calculateSEOScore(seo, layout)>>
    /\ scorePc' = "scored"
    /\ UNCHANGED <<doc, layout, seo, report>>
    /\ UNCHANGED <<serverVars, urlVars, a11yVars, techVars, secVars>>

AssembleResult ==
    /\ scorePc = "scored"
    /\ report' = AssembleSeo(seo, seoResult[1])
    /\ scorePc' = "done"
    /\ UNCHANGED <<doc, layout, seo, seoResult>>
    /\ UNCHANGED <<serverVars, urlVars, a11yVars, techVars, secVars>>

ReportNext ==
    \/ ExtractSignals
    \/ ScoreSignals
    \/ AssembleResult

ReportSpec == ReportInit /\ [][ReportNext]_vars

(***************************************************************************)
(* checkAccessibility.                                                     *)
(***************************************************************************)
HeadingLevels == 1..6
MaxHeadings == 3

\* `headingOrder[i] - headingOrder[i-1]`
LevelJumpEitherWay(previous, current) ==
    IF current > previous THEN current - previous ELSE previous - current

LevelJump(previous, current) == current - previous

SkippedHeadingFromTop(headingOrder, i) ==
    \E k \in 1..Len(headingOrder) :
        headingOrder[k] - (IF k = 1 THEN 0 ELSE headingOrder[k - 1]) > 1

\* The loop over headingOrder: TRUE at the first jump of more than one level.
RECURSIVE SkippedHeadingFrom(_, _)
SkippedHeadingFrom(headingOrder, i) ==
    IF i > Len(headingOrder) THEN FALSE
    ELSE IF LevelJump(headingOrder[i - 1], headingOrder[i]) > 1 THEN TRUE
    ELSE SkippedHeadingFrom(headingOrder, i + 1)

checkAccessibility(d) ==
    LET i0 == <<>>
        i1 == IF ~d.lang
                THEN Append(i0, <<"Missing lang attribute on <html>">>)
              ELSE i0
        i2 == IF d.imgWithoutAlt > 0
                THEN Append(i1, <<ToString(d.imgWithoutAlt),
                                  " images missing alt text">>)
              ELSE i1
        i3 == IF d.linksWithoutHref > 0
                THEN Append(i2, <<"Links without href attribute">>)
              ELSE i2
        skippedHeading == SkippedHeadingFrom(d.headings, 2)
    IN  IF skippedHeading
          THEN Append(i3, <<"Skipped heading levels detected">>)
        ELSE i3

A11yDocuments ==
    [lang : BOOLEAN,
     imgWithoutAlt : 0..1,
     linksWithoutHref : 0..1,
     headings : SeqsUpTo(HeadingLevels, MaxHeadings)]

A11yInit ==
    /\ ServerIdle /\ UrlIdle /\ ScoreIdle /\ TechIdle /\ SecIdle
    /\ a11yDoc \in A11yDocuments
    /\ accessibility = <<>>
    /\ a11yPc = "ready"

CallCheckAccessibility ==
    /\ a11yPc = "ready"
    /\ accessibility' = checkAccessibility(a11yDoc)
    /\ a11yPc' = "done"
    /\ UNCHANGED <<a11yDoc, serverVars, urlVars, scoreVars, techVars, secVars>>

A11yNext == CallCheckAccessibility

A11ySpec == A11yInit /\ [][A11yNext]_vars

(***************************************************************************)
(* detectTechStack.  A script URL is a sequence of tokens, the html is the *)
(* set of the root markers that occur in it.  `generator` is <<>> for null *)
(* and <<text>> for a string.                                              *)
(***************************************************************************)
MaxScripts == 3

ScriptUrls ==
    {<<>>,
     <<"/", "_next", "/", "static", "/", "main", ".js">>,
     <<"/", "_next", "/", "static", "/", "chunk", ".js">>,
     <<"https", ":", "/", "/", "cdn", "/", "React", ".js">>}

Generators == {"", "Next.js", "React", "WordPress 6.4"}

RootMarkers == {"id=\"root\"", "id=\"__next\"", "id=\"__nuxt\""}

\* `toLowerCase()` of one token.
ToLowerCase(tok) == IF tok = "React" THEN "react" ELSE tok

\* `scripts.join(" ").toLowerCase()`
RECURSIVE Join(_)
Join(list) ==
    IF list = <<>> THEN <<>>
    ELSE IF Len(list) = 1 THEN list[1]
    ELSE list[1] \o <<" ">> \o Join(Tail(list))

scriptString(list) ==
    LET joined == Join(list)
    IN  [i \in 1..Len(joined) |-> ToLowerCase(joined[i])]

\* The signature table: keyword in scriptString, name pushed.
ScriptSignatures ==
    <<<<"react", "React">>, <<"vue", "Vue">>, <<"angular", "Angular">>,
      <<"_next", "Next.js">>, <<"nuxt", "Nuxt.js">>, <<"svelte", "Svelte">>,
      <<"bootstrap", "Bootstrap">>, <<"tailwind", "Tailwind CSS">>,
      <<"wp-content", "WordPress">>, <<"woocommerce", "WooCommerce">>,
      <<"shopify", "Shopify">>, <<"squarespace", "Squarespace">>,
      <<"wix", "Wix">>>>

RootSignatures ==
    <<<<"id=\"root\"", "React (likely)">>, <<"id=\"__next\"", "Next.js">>,
      <<"id=\"__nuxt\"", "Nuxt.js">>>>

RECURSIVE PushScriptMatches(_, _, _)
PushScriptMatches(list, str, k) ==
    IF k > Len(ScriptSignatures) THEN list
    ELSE PushScriptMatches(
             IF \E i \in 1..Len(str) : str[i] = ScriptSignatures[k][1]
               THEN Append(list, ScriptSignatures[k][2]) ELSE list,
             str, k + 1)

RECURSIVE PushRootMatches(_, _, _)
PushRootMatches(list, lower, k) ==
    IF k > Len(RootSignatures) THEN list
    ELSE PushRootMatches(
             IF RootSignatures[k][1] \in lower
               THEN Append(list, RootSignatures[k][2]) ELSE list,
             lower, k + 1)

\* `[...new Set(tech)]`: the first occurrence of every name, in order.
UniqueKeepAll(list) == list

Unique(list) ==
    LET kept[i \in 0..Len(list)] ==
            IF i = 0 THEN <<>>
            ELSE IF \E j \in 1..(i - 1) : list[j] = list[i] THEN kept[i - 1]
            ELSE Append(kept[i - 1], list[i])
    IN  kept[Len(list)]

\* The part of detectTechStack after its two awaits.
TechOf(html, gen, list) ==
    LET t0 == IF gen # <<>> /\ gen[1] # "" THEN <<gen[1]>> ELSE <<>>
        t1 == PushScriptMatches(t0, scriptString(list), 1)
        t2 == PushRootMatches(t1, html, 1)
    IN  Unique(t2)

TechInit ==
    /\ ServerIdle /\ UrlIdle /\ ScoreIdle /\ A11yIdle /\ SecIdle
    /\ techDoc \in SUBSET RootMarkers
    /\ generator = <<>>
    /\ scripts = <<>>
    /\ tech = <<>>
    /\ techPc = "generator"

TechUnchanged == UNCHANGED <<serverVars, urlVars, scoreVars, a11yVars, secVars>>

\* page.$eval('meta[name="generator"]', ...) resolves with the content.
TechGeneratorOk(g) ==
    /\ techPc = "generator"
    /\ generator' = <<g>>
    /\ techPc' = "scripts"
    /\ UNCHANGED <<techDoc, scripts, tech>>
    /\ TechUnchanged

\* It rejects (no such element): `.catch(() => null)`.
TechGeneratorFail ==
    /\ techPc = "generator"
    /\ generator' = <<>>
    /\ techPc' = "scripts"
    /\ UNCHANGED <<techDoc, scripts, tech>>
    /\ TechUnchanged

\* page.$$eval("script", ...) resolves: the rest of the function runs.
TechScriptsOk(list) ==
    /\ techPc = "scripts"
    /\ scripts' = list
    /\ tech' = TechOf(techDoc, generator, list)
    /\ techPc' = "done"
    /\ UNCHANGED <<techDoc, generator>>
    /\ TechUnchanged

\* It rejects: detectTechStack rejects.
TechScriptsFail ==
    /\ techPc = "scripts"
    /\ techPc' = "rejected"
    /\ UNCHANGED <<techDoc, generator, scripts, tech>>
    /\ TechUnchanged

TechNext ==
    \/ \E g \in Generators : TechGeneratorOk(g)
    \/ TechGeneratorFail
    \/ \E list \in SeqsUpTo(ScriptUrls, MaxScripts) : TechScriptsOk(list)
    \/ TechScriptsFail

TechSpec == TechInit /\ [][TechNext]_vars

(***************************************************************************)
(* checkSecurity.                                                          *)
(***************************************************************************)
MaxInline == 6

\* `inlineScripts > 5`
TooManyInlineFromFive(n) == n >= 5

TooManyInline(n) == n > 5

Finding(type, message) == [type |-> type, message |-> message]

checkSecurity(d) ==
    LET f0 == <<>>
        f1 == IF d.cspMeta \notin {"Content-Security-Policy",
                                   "content-security-policy"}
                THEN Append(f0, Finding("warning",
                         <<"No Content Security Policy detected">>))
              ELSE f0
        f2 == IF d.httpResources > 0
                THEN Append(f1, Finding("warning",
                         <<ToString(d.httpResources),
                           " HTTP resources (should use HTTPS)">>))
              ELSE f1
        f3 == IF d.externalScripts > 0
                THEN Append(f2, Finding("info",
                         <<ToString(d.externalScripts),
                           " external scripts loaded">>))
              ELSE f2
    IN  IF TooManyInline(d.inlineScripts)
          THEN Append(f3, Finding("info",
                   <<ToString(d.inlineScripts), " inline scripts">>))
        ELSE f3

SecDocuments ==
    [cspMeta : {"", "Content-Security-Policy", "content-security-policy"},
     httpResources : 0..1,
     externalScripts : 0..1,
     inlineScripts : 0..MaxInline]

SecInit ==
    /\ ServerIdle /\ UrlIdle /\ ScoreIdle /\ A11yIdle /\ TechIdle
    /\ secDoc \in SecDocuments
    /\ security = <<>>
    /\ secPc = "ready"

CallCheckSecurity ==
    /\ secPc = "ready"
    /\ security' = checkSecurity(secDoc)
    /\ secPc' = "done"
    /\ UNCHANGED <<secDoc, serverVars, urlVars, scoreVars, a11yVars, techVars>>

SecNext == CallCheckSecurity

SecSpec == SecInit /\ [][SecNext]_vars

(***************************************************************************)
(* The SIGTERM handler, delivered at any moment of the server's run.       *)
(***************************************************************************)
\* `if (browser) await browser.close();` up to the await, or process.exit(0)
\* at once when the handle is unset.
SigtermReceive ==
    /\ shutdown = "running"
    /\ IF browser # None
       THEN /\ closedBrowsers' = {browser}
            /\ shutdown' = "closing"
       ELSE /\ shutdown' = "exited"
            /\ UNCHANGED closedBrowsers
    /\ UNCHANGED <<browser, launched, pc, body, targetUrl, page, pageOpen,
                   loadSuccess, trace, error, responses>>
    /\ UNCHANGED <<urlVars, scoreVars, a11yVars, techVars, secVars, frontVars>>

\* browser.close() resolves, its pages are gone with it: process.exit(0).
SigtermCloseOk ==
    /\ shutdown = "closing"
    /\ shutdown' = "exited"
    /\ pageOpen' = [r \in Requests |->
                       IF page[r] \in closedBrowsers /\ pageOpen[r] # "none"
                       THEN "closed" ELSE pageOpen[r]]
    /\ UNCHANGED <<browser, launched, pc, body, targetUrl, page,
                   loadSuccess, trace, error, responses, closedBrowsers>>
    /\ UNCHANGED <<urlVars, scoreVars, a11yVars, techVars, secVars, frontVars>>

\* browser.close() rejects: the handler's promise rejects and process.exit
\* is not reached.
SigtermCloseFail ==
    /\ shutdown = "closing"
    /\ shutdown' = "rejected"
    /\ closedBrowsers' = {}
    /\ UNCHANGED <<browser, launched, pc, body, targetUrl, page, pageOpen,
                   loadSuccess, trace, error, responses>>
    /\ UNCHANGED <<urlVars, scoreVars, a11yVars, techVars, secVars, frontVars>>

ShutdownNext ==
    \/ shutdown \in {"running", "closing"} /\ Next
    \/ SigtermReceive
    \/ SigtermCloseOk
    \/ SigtermCloseFail

ShutdownSpec == Init /\ [][ShutdownNext]_vars

(***************************************************************************)
(* The browser page: scan history in localStorage and the compare mode.    *)
(* An entry is modelled by its id and by the screenshot member of its      *)
(* fullData; Date.now() advances between two saves.  The markup of the     *)
(* page is taken to hold the #historyList container and a #compareButton   *)
(* that starts disabled.                                                   *)
(***************************************************************************)
MAX_HISTORY == 50
MaxSaves == 52
MaxDeletes == 1
MaxCompareSaves == 3
MaxCompareDeletes == 2

\* The `data` handed to displayResults by an analysis.
ScanData == [screenshot : {"base64"}]

Ids(h) == [k \in 1..Len(h) |-> h[k].id]

InSeq(x, q) == \E k \in 1..Len(q) : q[k] = x

\* `fullData: { ...data, screenshot: null }`
Entry(id, data) == [id |-> id, screenshot |-> "null"]

\* `if (history.length > MAX_HISTORY) history = history.slice(0, MAX_HISTORY)`
TruncateNever(h) == h

Truncate(h) == IF Len(h) > MAX_HISTORY THEN SubSeq(h, 1, MAX_HISTORY) ELSE h

\* updateCompareButton
updateCompareButton(d, selected) ==
    [d EXCEPT !.compareEnabled = (Len(selected) = 2)]

\* updateHistoryDisplay: the list is rendered anew, every checkbox
\* unchecked; with an empty history it returns before updateCompareButton.
updateHistoryDisplay(d, h, selected) ==
    IF h = <<>>
    THEN [d EXCEPT !.listed = <<>>, !.checked = {}]
    ELSE updateCompareButton(
             [d EXCEPT !.listed = Ids(h), !.checked = {}], selected)

\* saveToHistory: the history it stores.
saveToHistory(h, id, data) == Truncate(<<Entry(id, data)>> \o h)

\* What the page's handlers leave alone.
FrontUnchanged ==
    UNCHANGED <<browser, launched, pc, body, targetUrl, page, pageOpen,
                loadSuccess, trace, error, responses, shutdownVars,
                urlVars, scoreVars, a11yVars, techVars, secVars>>

\* displayResults(data) after an analysis: saveToHistory(data), and the
\* output shows the results.
DisplayResults(data) ==
    /\ clock' = clock + 1
    /\ history' = saveToHistory(history, clock + 1, data)
    /\ dom' = [updateHistoryDisplay(dom, history', selectedForCompare)
                  EXCEPT !.comparison = "none"]
    /\ UNCHANGED <<selectedForCompare, deletions>>
    /\ FrontUnchanged

\* loadFromHistory(id): displayResults(entry.fullData), which saves the
\* entry again, then toggleHistory() closes the open panel.
LoadFromHistory(id) ==
    /\ dom.panelOpen
    /\ InSeq(id, dom.listed)
    /\ InSeq(id, Ids(history))
    /\ LET entry == history[CHOOSE k \in 1..Len(history) : history[k].id = id]
       IN  /\ clock' = clock + 1
           /\ history' = saveToHistory(history, clock + 1, entry)
           /\ dom' = [updateHistoryDisplay(dom, history', selectedForCompare)
                         EXCEPT !.comparison = "none", !.panelOpen = FALSE]
    /\ UNCHANGED <<selectedForCompare, deletions>>
    /\ FrontUnchanged

\* deleteFromHistory(id), from the delete button of a listed entry.
DeleteFromHistory(id) ==
    /\ dom.panelOpen
    /\ InSeq(id, dom.listed)
    /\ history' = SelectSeq(history, LAMBDA entry : entry.id # id)
    /\ dom' = updateHistoryDisplay(dom, history', selectedForCompare)
    /\ deletions' = deletions + 1
    /\ UNCHANGED <<selectedForCompare, clock>>
    /\ FrontUnchanged

\* clearHistory, confirmed.
ClearHistory ==
    /\ history' = <<>>
    /\ dom' = updateHistoryDisplay(dom, history', selectedForCompare)
    /\ deletions' = deletions + 1
    /\ UNCHANGED <<selectedForCompare, clock>>
    /\ FrontUnchanged

\* toggleHistory: closes the panel, or renders the list and opens it.
ToggleHistory ==
    /\ dom' = IF dom.panelOpen
              THEN [dom EXCEPT !.panelOpen = FALSE]
              ELSE [updateHistoryDisplay(dom, history, selectedForCompare)
                       EXCEPT !.panelOpen = TRUE]
    /\ UNCHANGED <<history, selectedForCompare, clock, deletions>>
    /\ FrontUnchanged

\* The compare checkbox of a listed entry changes and handleCompareSelection
\* runs.
HandleCompareSelection(id) ==
    /\ dom.panelOpen
    /\ InSeq(id, dom.listed)
    /\ LET nowChecked == id \notin dom.checked
           full == Len(selectedForCompare) >= 2
           oldestId == selectedForCompare[1]
       IN  IF nowChecked
           THEN /\ selectedForCompare' =
                       Append(IF full THEN Tail(selectedForCompare)
                              ELSE selectedForCompare, id)
                /\ dom' = updateCompareButton(
                       [dom EXCEPT !.checked =
                           IF full /\ InSeq(oldestId, dom.listed)
                           THEN (dom.checked \cup {id}) \ {oldestId}
                           ELSE dom.checked \cup {id}],
                       selectedForCompare')
           ELSE /\ selectedForCompare' =
                       SelectSeq(selectedForCompare, LAMBDA i : i # id)
                /\ dom' = updateCompareButton(
                       [dom EXCEPT !.checked = dom.checked \ {id}],
                       selectedForCompare')
    /\ UNCHANGED <<history, clock, deletions>>
    /\ FrontUnchanged

\* startComparison, from the enabled Compare button.
StartComparison ==
    /\ dom.compareEnabled
    /\ IF Len(selectedForCompare) # 2
       THEN UNCHANGED dom
       ELSE IF InSeq(selectedForCompare[1], Ids(history))
               /\ InSeq(selectedForCompare[2], Ids(history))
       THEN \* displayComparison, then toggleHistory
            dom' = [(IF dom.panelOpen THEN dom
                     ELSE updateHistoryDisplay(dom, history,
                                               selectedForCompare))
                       EXCEPT !.comparison = "shown",
                              !.panelOpen = ~dom.panelOpen]
       ELSE dom' = [dom EXCEPT !.comparison = "failed"]
    /\ UNCHANGED <<history, selectedForCompare, clock, deletions>>
    /\ FrontUnchanged

\* closeComparison, from the close button of the comparison view.
CloseComparison ==
    /\ dom.comparison = "shown"
    /\ selectedForCompare' = <<>>
    /\ dom' = updateCompareButton(
                  [dom EXCEPT !.comparison = "none", !.checked = {}], <<>>)
    /\ UNCHANGED <<history, clock, deletions>>
    /\ FrontUnchanged

FrontInit ==
    /\ ServerIdle /\ UrlIdle /\ ScoreIdle /\ A11yIdle /\ TechIdle /\ SecIdle

\* The history alone: saves up to MaxSaves, removals up to MaxDeletes.
HistoryNext ==
    \/ \E data \in ScanData : clock < MaxSaves /\ DisplayResults(data)
    \/ \E id \in 1..MaxSaves : clock < MaxSaves /\ LoadFromHistory(id)
    \/ \E id \in 1..MaxSaves : deletions < MaxDeletes /\ DeleteFromHistory(id)
    \/ deletions < MaxDeletes /\ ClearHistory
    \/ ToggleHistory

HistorySpec == FrontInit /\ [][HistoryNext]_vars

\* History and compare mode together, on a short history: saves up to
\* MaxCompareSaves, removals up to MaxCompareDeletes.
CompareNext ==
    \/ \E data \in ScanData : clock < MaxCompareSaves /\ DisplayResults(data)
    \/ \E id \in 1..MaxCompareSaves :
           clock < MaxCompareSaves /\ LoadFromHistory(id)
    \/ \E id \in 1..MaxCompareSaves :
           deletions < MaxCompareDeletes /\ DeleteFromHistory(id)
    \/ deletions < MaxCompareDeletes /\ ClearHistory
    \/ ToggleHistory
    \/ \E id \in 1..MaxCompareSaves : HandleCompareSelection(id)
    \/ StartComparison
    \/ CloseComparison

CompareSpec == FrontInit /\ [][CompareNext]_vars


(***************************************************************************)
(* Views of a request's trace.                                             *)
(***************************************************************************)
IsGoto(e) == e.op = "page.goto"
IsResponse(e) == e.op \in {"res.json", "res.status.json"}
IsLoaded(e) == e.op = "console.log" /\ \E i \in 1..3 : e.arg = LoadedLog(i)

\* The navigation attempts of request r, in order.
Attempts(r) == SelectSeq(trace[r], IsGoto)

\* The positions of the events of operation op in the trace of request r.
At(r, op) == {i \in 1..Len(trace[r]) : trace[r][i].op = op}

Ended(r) == pc[r] \in {"done", "rejected"}

\* Operations that run only on a loaded page.
PostNavOps == {"delay", "page.screenshot", "page.content", "extractLayout",
               "analyzeSEO", "page.$eval", "page.$$eval", "page.evaluate",
               "checkAccessibility", "checkSecurity", "calculateSEOScore",
               "detectTrackers"}

(***************************************************************************)
(* C1.  A request that acquired a page context and has been answered has   *)
(* had page.close() called, and resolved, right before the response was    *)
(* sent: its page is closed.  A request that acquired a page and has left  *)
(* the handler on any path has had page.close() called.                    *)
(***************************************************************************)
C1_PageClosedBeforeResponse ==
    \A r \in Requests :
        page[r] # None =>
            /\ Ended(r) => At(r, "page.close") # {}
            /\ \A j \in 1..Len(trace[r]) :
                   IsResponse(trace[r][j]) =>
                       /\ j > 1
                       /\ trace[r][j - 1].op = "page.close"
                       /\ pageOpen[r] = "closed"
            /\ responses[r] # <<>> => pageOpen[r] = "closed"

\* A later step failed after a successful navigation, and the request was
\* answered with the error.
C1_Witness ==
    \E r \in Requests :
        /\ page[r] # None
        /\ loadSuccess[r]
        /\ Len(responses[r]) = 1
        /\ responses[r][1].status = 500

(***************************************************************************)
(* C2.  The navigation attempts of a request are networkidle2, then        *)
(* domcontentloaded, then load: attempt i uses strategy i, there are at    *)
(* most three, each attempt after the first directly follows the failure   *)
(* of the one before, and none follows a success.                          *)
(***************************************************************************)
C2_StrategyOrder ==
    \A r \in Requests :
      LET attempts == Attempts(r)
          loaded == {k \in 1..Len(trace[r]) : IsLoaded(trace[r][k])}
      IN
        /\ Len(attempts) <= 3
        /\ \A i \in 1..Len(attempts) : attempts[i].arg = Strategies[i]
        /\ \A j \in At(r, "page.goto") :
               /\ \A k \in loaded : k > j
               /\ trace[r][j].arg # Strategies[1] =>
                      /\ j > 2
                      /\ trace[r][j - 2].op = "page.goto"
                      /\ trace[r][j - 1].op = "console.log"
                      /\ \E i \in 1..2 :
                             /\ trace[r][j - 2].arg = Strategies[i]
                             /\ trace[r][j - 1].arg = FailedLog(i)
                             /\ trace[r][j].arg = Strategies[i + 1]

\* The second strategy succeeded after the first failed.
C2_Witness ==
    \E r \in Requests : loadSuccess[r] /\ Len(Attempts(r)) = 2

(***************************************************************************)
(* C3.  The strategy named by the success log line, the only record of the *)
(* navigation outcome besides loadSuccess, is the strategy of the last     *)
(* attempt; when networkidle2 and domcontentloaded failed and load         *)
(* succeeded it is load.                                                   *)
(***************************************************************************)
StrategyUsed(r) ==
    {Strategies[i] : i \in {i \in 1..3 :
        \E k \in 1..Len(trace[r]) :
            trace[r][k].op = "console.log" /\ trace[r][k].arg = LoadedLog(i)}}

C3_StrategyUsed ==
    \A r \in Requests :
      LET attempts == Attempts(r)
          used == StrategyUsed(r)
      IN
        /\ loadSuccess[r] =>
               /\ attempts # <<>>
               /\ used = {attempts[Len(attempts)].arg}
               /\ Len(attempts) = 3 => used = {"load"}
        /\ ~loadSuccess[r] => used = {}

\* networkidle2 failed, domcontentloaded failed, load succeeded.
C3_Witness ==
    \E r \in Requests :
        /\ loadSuccess[r]
        /\ Len(Attempts(r)) = 3
        /\ At(r, "page.screenshot") # {}


(***************************************************************************)
(* C4.  When the three navigation attempts of a request have failed, the   *)
(* request ends answered with the error that carries the normalized URL,   *)
(* nothing that needs a loaded page has run, and its page is closed.       *)
(***************************************************************************)
NavigationFailed(r) ==
    /\ Len(Attempts(r)) = 3
    /\ ~loadSuccess[r]
    /\ pc[r] \notin {"goto3"}

C4_NavigationFailedAnswered ==
    \A r \in Requests :
        NavigationFailed(r) =>
            /\ error[r] = UnableToLoad(targetUrl[r])
            /\ \A op \in PostNavOps : At(r, op) = {}
            /\ Ended(r) =>
                   /\ responses[r] = <<ErrorResponse(UnableToLoad(targetUrl[r]))>>
                   /\ pageOpen[r] = "closed"

(***************************************************************************)
(* C5.  Once the handle is set, an initBrowser call launches nothing and   *)
(* leaves the handle unchanged, and the request that made it asks that     *)
(* handle for its page; while a single browser has been launched, every    *)
(* page of every request belongs to it.                                    *)
(***************************************************************************)
C5_ReuseStep ==
    \A p \in Procs :
        (browser # None /\ pc[p] = "idle" /\ pc'[p] # "idle") =>
            /\ pc'[p] # "launching"
            /\ browser' = browser
            /\ launched' = launched
            /\ (p \in Requests /\ pc'[p] = "newPage") =>
                   trace'[p][Len(trace'[p])] = Ev("browser.newPage", "", browser)

C5_OnePage ==
    \A r \in Requests :
        /\ page[r] # None => page[r] \in launched
        /\ (page[r] # None /\ Cardinality(launched) = 1) => page[r] = browser

C5_HandleReused == [](C5_OnePage) /\ [][C5_ReuseStep]_vars

\* The startup callback launched the only browser and a request, which
\* launched none, got its page from it.
C5_Witness ==
    \E r \in Requests :
        /\ launched = {Startup}
        /\ browser = Startup
        /\ page[r] = Startup

(***************************************************************************)
(* C6.  initBrowser is an unguarded check-then-create: a launch that       *)
(* resolves adds a browser process of its own and overwrites the handle,   *)
(* also when another launch has set the handle in the meantime, so the     *)
(* handle is the browser whose launch resolved last.                       *)
(***************************************************************************)
C6_LaunchStep ==
    \A p \in Procs :
        (pc[p] = "launching" /\ p \in launched') =>
            /\ p \notin launched
            /\ launched' = launched \cup {p}
            /\ browser' = p

C6_Unguarded == [][C6_LaunchStep]_vars

\* Two calls tested the handle before either launch resolved: two browser
\* processes were launched and the handle refers to one of them only.
C6_Witness ==
    /\ Cardinality(launched) >= 2
    /\ browser \in launched
    /\ \E b \in launched : b # browser

(***************************************************************************)
(* C7.  A request that acquired a page and in which an error was raised    *)
(* afterwards ends answered with exactly one categorised 500 response,     *)
(* sent after its page was closed, and with no report.                     *)
(***************************************************************************)
C7_ErrorAnswered ==
    \A r \in Requests :
        (page[r] # None /\ error[r] # NoError /\ Ended(r)) =>
            /\ Len(responses[r]) = 1
            /\ responses[r][1].status = 500
            /\ responses[r][1].report = NoReport
            /\ responses[r][1].technicalDetails = error[r]
            /\ pageOpen[r] = "closed"

(***************************************************************************)
(* C8.  Every navigation attempt is given the full per-mode timeout, 30000 *)
(* ms in quick mode and 60000 ms otherwise, whatever its position, so the  *)
(* timeouts of the attempts of a request add up to at most three times     *)
(* that value.                                                             *)
(***************************************************************************)
RECURSIVE SumN(_)
SumN(s) == IF s = <<>> THEN 0 ELSE s[1].n + SumN(Tail(s))

C8_FullTimeout ==
    \A r \in Requests :
        LET perMode == IF body[r].quickMode THEN 30000 ELSE 60000
            attempts == Attempts(r)
            total == SumN(attempts)
        IN  /\ \A i \in 1..Len(attempts) : attempts[i].n = perMode
            /\ total = Len(attempts) * perMode
            /\ total <= 3 * perMode

\* Three attempts in quick mode: 90000 ms of navigation timeouts.
C8_Witness ==
    \E r \in Requests :
        /\ body[r].quickMode
        /\ SumN(Attempts(r)) = 90000

(***************************************************************************)
(* C9.  A request waits exactly once after its navigation succeeded, 1000  *)
(* ms in quick mode and 3000 ms otherwise whichever strategy succeeded,    *)
(* the wait starts right after the success, and the screenshot and the     *)
(* document are taken after the wait has elapsed.  No wait without a       *)
(* successful navigation.                                                  *)
(***************************************************************************)
C9_SettleWait ==
    \A r \in Requests :
      LET delays == At(r, "delay")
          snapshots == At(r, "page.screenshot") \cup At(r, "page.content")
      IN
        /\ ~loadSuccess[r] => delays = {}
        /\ loadSuccess[r] =>
               /\ Cardinality(delays) = 1
               /\ \A d \in delays :
                      /\ trace[r][d].n = IF body[r].quickMode THEN 1000 ELSE 3000
                      /\ d > 1 /\ IsLoaded(trace[r][d - 1])
                      /\ \A k \in snapshots : k > d
               /\ pc[r] = "delay" => snapshots = {}

\* The snapshot was taken in quick mode after the second strategy succeeded.
C9_Witness ==
    \E r \in Requests :
        /\ body[r].quickMode
        /\ Len(Attempts(r)) = 2
        /\ At(r, "page.content") # {}

(***************************************************************************)
(* C10.  normalizeUrl returns a string that begins with "https://" for     *)
(* every input.                                                            *)
(***************************************************************************)
C10_AlwaysHttps ==
    urlPc = "done" => StartsWith(urlOutput, HttpsPrefix)

(***************************************************************************)
(* Views of the scoring inputs used by the properties below.               *)
(***************************************************************************)
Missing(v) == v = Null \/ v = None \/ v = 0

\* The deduction each rule of the scoring table stands for.
TitleDeduction(s) ==
    IF Missing(s.title) THEN 20 ELSE IF s.titleLength > 60 THEN 5 ELSE 0
DescriptionDeduction(s) ==
    IF Missing(s.metaDescription) THEN 15
    ELSE IF s.metaDescriptionLength > 160 THEN 5 ELSE 0
NoH1Deduction(s) == IF s.h1Count = 0 THEN 20 ELSE 0
MultipleH1Deduction(s) == IF s.h1Count > 1 THEN 10 ELSE 0
ImagesDeduction(s) ==
    IF s.imagesWithoutAlt > 0
    THEN (IF 2 * s.imagesWithoutAlt < 10 THEN 2 * s.imagesWithoutAlt ELSE 10)
    ELSE 0
HeaderDeduction(l) == IF l.hasHeader THEN 0 ELSE 5
FooterDeduction(l) == IF l.hasFooter THEN 0 ELSE 5
CanonicalDeduction(s) == IF Missing(s.canonical) THEN 5 ELSE 0
OpenGraphDeduction(s) ==
    IF Missing(s.openGraph.title) /\ Missing(s.openGraph.description)
    THEN 10 ELSE 0

Deductions(s, l) ==
    <<TitleDeduction(s), DescriptionDeduction(s), NoH1Deduction(s),
      MultipleH1Deduction(s), ImagesDeduction(s), HeaderDeduction(l),
      FooterDeduction(l), CanonicalDeduction(s), OpenGraphDeduction(s)>>

RECURSIVE SumSeq(_)
SumSeq(q) == IF q = <<>> THEN 0 ELSE q[1] + SumSeq(Tail(q))

RulesFired(s, l) == {k \in 1..9 : Deductions(s, l)[k] > 0}

ScoreCalled == scorePc = "ready" /\ Len(seoResult) > 0

\* C11. Every value returned by calculateSEOScore has the score
\* max(0, 100 - D), D being the sum of the deductions of the scoring table
\* that apply to the input (title 20 / 5, meta description 15 / 5, no H1 20,
\* several H1 10, images min(10, 2n), header 5, footer 5, canonical 5, Open
\* Graph 10 only when title and description are both missing).
C11_ScoreFormula ==
    ScoreCalled =>
        \A i \in 1..Len(seoResult) :
            LET expected == 100 - SumSeq(Deductions(seo, layout))
            IN  seoResult[i].score = IF expected > 0 THEN expected ELSE 0

\* C11 witness: a title of exactly 60 and a description of exactly 160
\* characters, only one Open Graph member missing and more than five images
\* without alt: the only deduction is the capped image penalty.
C11_Witness ==
    /\ ScoreCalled
    /\ seo.titleLength = 60
    /\ seo.metaDescriptionLength = 160
    /\ seo.h1Count = 1
    /\ seo.imagesWithoutAlt > 5
    /\ seo.canonical # Null
    /\ seo.openGraph.title = Null
    /\ seo.openGraph.description # Null
    /\ layout.hasHeader /\ layout.hasFooter
    /\ seoResult[1].score = 90

\* C12. The score returned by calculateSEOScore is an integer between 0 and
\* 100 for every input with non-negative counts.
C12_ScoreRange ==
    ScoreCalled =>
        \A i \in 1..Len(seoResult) : seoResult[i].score \in 0..100

\* C12 witness: every deduction that can apply together applies, the image
\* penalty at its cap; the score is still positive.
C12_Witness ==
    /\ ScoreCalled
    /\ seo.title = Null
    /\ seo.metaDescription = Null
    /\ seo.h1Count = 0
    /\ seo.imagesWithoutAlt >= 5
    /\ seo.canonical = Null
    /\ seo.openGraph.title = Null
    /\ seo.openGraph.description = Null
    /\ ~layout.hasHeader /\ ~layout.hasFooter
    /\ seoResult[1].score = 10

EmptyPage ==
    /\ seo.title = Null
    /\ seo.metaDescription = Null
    /\ seo.h1Count = 0
    /\ seo.imagesWithoutAlt = 0
    /\ seo.canonical = Null
    /\ seo.openGraph.title = Null
    /\ seo.openGraph.description = Null
    /\ ~layout.hasHeader /\ ~layout.hasFooter

\* C13. The input with no title, no meta description, no H1, no image
\* without alt, no canonical, no Open Graph title or description, no header
\* and no footer scores 20 with exactly 7 issues.
C13_EmptyPageScore ==
    ScoreCalled /\ EmptyPage =>
        \A i \in 1..Len(seoResult) :
            /\ seoResult[i].score = 20
            /\ Len(seoResult[i].issues) = 7

\* C13 witness: the empty page has been scored.
C13_Witness ==
    /\ ScoreCalled
    /\ EmptyPage
    /\ seoResult[1].score = 20
    /\ Len(seoResult[1].issues) = 7

MinimalDocument ==
    /\ doc.titleText = 0
    /\ Missing(doc.metaDescription)
    /\ doc.h1Count = 1
    /\ doc.imagesWithoutAlt = 0
    /\ doc.headerTag /\ doc.footerTag
    /\ doc.canonical = 1
    /\ doc.ogTitle = 1
    /\ doc.ogDescription = 1

\* C14. The report of a document with no title, no meta description, one
\* h1, a header, a footer, a canonical link and both Open Graph members has
\* SEO score 65 and exactly the two issues "missing title" and "missing meta
\* description"; the score is computed from the records the extractors
\* returned, and these are reported unchanged.
C14_MinimalDocumentReport ==
    scorePc = "done" /\ MinimalDocument =>
        /\ report.score = 65
        /\ report.issues =
               <<<<"Missing page title">>, <<"Missing meta description">>>>
        /\ seo = analyzeSEO(doc)
        /\ layout = extractLayout(doc)
        /\ \A k \in DOMAIN seo : report[k] = seo[k]

\* C14 witness: the minimal document has been reported.
C14_Witness ==
    /\ scorePc = "done"
    /\ MinimalDocument
    /\ report.score = 65
    /\ Len(report.issues) = 2

\* C15. calculateSEOScore lists exactly one issue per rule that deducted:
\* the number of issues is the number of rules that fired, and the list is
\* empty exactly when the score is 100.
C15_OneIssuePerDeduction ==
    ScoreCalled =>
        \A i \in 1..Len(seoResult) :
            /\ Len(seoResult[i].issues) = Cardinality(RulesFired(seo, layout))
            /\ seoResult[i].issues = <<>> <=> seoResult[i].score = 100

\* C15 witness: three rules fired and three issues are listed.
C15_Witness ==
    /\ ScoreCalled
    /\ Cardinality(RulesFired(seo, layout)) = 3
    /\ Len(seoResult[1].issues) = 3
    /\ seoResult[1].score < 100

\* The rule an issue message belongs to, in check order.
RuleOf(issue) ==
    CASE issue[1] \in {"Missing page title", "Title too long (>60 chars)"} -> 1
      [] issue[1] \in {"Missing meta description",
                       "Meta description too long (>160 chars)"} -> 2
      [] issue[1] = "No H1 heading found" -> 3
      [] issue[1] = "Multiple H1 headings" -> 4
      [] Len(issue) = 2 /\ issue[2] = " images without alt text" -> 5
      [] issue[1] = "No header element" -> 6
      [] issue[1] = "No footer element" -> 7
      [] issue[1] = "No canonical URL" -> 8
      [] issue[1] = "Missing Open Graph tags" -> 9
      [] OTHER -> 0

\* An input on which no rule fires.
CleanSeo ==
    [title |-> 60, titleLength |-> 60,
     metaDescription |-> 160, metaDescriptionLength |-> 160,
     h1Count |-> 1, h1Text |-> 1, imagesWithoutAlt |-> 0, canonical |-> 1,
     openGraph |-> [title |-> 1, description |-> 1, image |-> Null]]
CleanLayout == [hasHeader |-> TRUE, hasFooter |-> TRUE]

\* The members of the seo record each group of rules reads.
RuleFields ==
    <<{"title", "titleLength"},
      {"metaDescription", "metaDescriptionLength"},
      {"h1Count"}, {"imagesWithoutAlt"}, {}, {}, {"canonical"},
      {"openGraph"}>>
LayoutFields == <<{}, {}, {}, {}, {"hasHeader"}, {"hasFooter"}, {}, {}>>

\* The input that agrees with (s, l) on the members group g reads and fires
\* no other rule.
OnlySeo(s, g) ==
    [k \in DOMAIN CleanSeo |-> IF k \in RuleFields[g] THEN s[k] ELSE CleanSeo[k]]
OnlyLayout(l, g) ==
    [k \in DOMAIN CleanLayout |->
        IF k \in LayoutFields[g] THEN l[k] ELSE CleanLayout[k]]
Alone(s, l, g) == calculateSEOScore(OnlySeo(s, g), OnlyLayout(l, g))

RECURSIVE IssuesAlone(_, _, _)
IssuesAlone(s, l, g) ==
    IF g > 8 THEN <<>> ELSE Alone(s, l, g).issues \o IssuesAlone(s, l, g + 1)

RECURSIVE PointsAlone(_, _, _)
PointsAlone(s, l, g) ==
    IF g > 8 THEN 0 ELSE (100 - Alone(s, l, g).score) + PointsAlone(s, l, g + 1)

\* C16. The issues come in the fixed check order (title, meta description,
\* no H1, multiple H1, images, header, footer, canonical, Open Graph), and a
\* rule fires and deducts the same whatever the other rules do: the points
\* lost and the issues listed are those of each rule taken alone, put
\* together in check order.
C16_CheckOrderIndependent ==
    ScoreCalled =>
        \A i \in 1..Len(seoResult) :
            LET issues == seoResult[i].issues
            IN  /\ \A k \in 1..Len(issues) : RuleOf(issues[k]) \in 1..9
                /\ \A j, k \in 1..Len(issues) :
                       j < k => RuleOf(issues[j]) < RuleOf(issues[k])
                /\ issues = IssuesAlone(seo, layout, 1)
                /\ 100 - seoResult[i].score = PointsAlone(seo, layout, 1)

\* C16 witness: the first and the last rule fired together with two in
\* between, and the issues are listed in that order.
C16_Witness ==
    /\ ScoreCalled
    /\ Len(seoResult[1].issues) = 4
    /\ RuleOf(seoResult[1].issues[1]) = 1
    /\ RuleOf(seoResult[1].issues[2]) = 4
    /\ RuleOf(seoResult[1].issues[3]) = 5
    /\ RuleOf(seoResult[1].issues[4]) = 9

C17_SameResult ==
    ScoreCalled =>
        \A i, j \in 1..Len(seoResult) : seoResult[i] = seoResult[j]

C17_InputsKept == seo' = seo /\ layout' = layout

IsSkipIssue(issue) == issue = <<"Skipped heading levels detected">>

\* A heading that is more than one level below the heading before it.
HasSkip(headings) ==
    \E i \in 1..(Len(headings) - 1) : headings[i + 1] > headings[i] + 1

\* C18. checkAccessibility reports the skipped-heading issue exactly when
\* some heading is more than one level below the heading before it (as in
\* 1, 2, 4; not in 1, 2, 3, for one heading or for none), and reports it at
\* most once.  A jump is read as a jump down the hierarchy: a heading any
\* number of levels above the one before it (3, 1) is not a skip.
C18_SkippedHeading ==
    a11yPc = "done" =>
        /\ HasSkip(a11yDoc.headings) <=>
               \E k \in 1..Len(accessibility) : IsSkipIssue(accessibility[k])
        /\ Len(SelectSeq(accessibility, IsSkipIssue)) <= 1

\* C18 witness: two skips in 1, 3, 5 and the issue is listed once.
C18_Witness ==
    /\ a11yPc = "done"
    /\ a11yDoc.headings = <<1, 3, 5>>
    /\ Len(SelectSeq(accessibility, IsSkipIssue)) = 1

IsNext(name) == name = "Next.js"

\* C19. detectTechStack returns no name twice: "Next.js" is listed exactly
\* once when it is detected, by several script URLs, by the script and the
\* root signature together, or by the generator meta tag as well.
C19_NoDuplicateTech ==
    techPc = "done" =>
        /\ \A i, j \in 1..Len(tech) : i # j => tech[i] # tech[j]
        /\ (\/ \E k \in 1..Len(scripts) :
                   \E i \in 1..Len(scripts[k]) : scripts[k][i] = "_next"
            \/ "id=\"__next\"" \in techDoc
            \/ generator = <<"Next.js">>)
              => Len(SelectSeq(tech, IsNext)) = 1

\* C19 witness: two script URLs with the _next segment, the __next root and
\* the generator "Next.js" together, and the name is listed once.
C19_Witness ==
    /\ techPc = "done"
    /\ scripts = <<<<"/", "_next", "/", "static", "/", "main", ".js">>,
                   <<"/", "_next", "/", "static", "/", "chunk", ".js">>>>
    /\ "id=\"__next\"" \in techDoc
    /\ generator = <<"Next.js">>
    /\ Len(SelectSeq(tech, IsNext)) = 1

IsInlineFinding(f) == Len(f.message) = 2 /\ f.message[2] = " inline scripts"

\* C20. checkSecurity returns the inline-script finding exactly when more
\* than five script elements have no src (none at 5, one at 6), and every
\* finding has the severity 'warning' or 'info' and a message.
C20_InlineScripts ==
    secPc = "done" =>
        /\ Len(SelectSeq(security, IsInlineFinding)) =
               IF secDoc.inlineScripts > 5 THEN 1 ELSE 0
        /\ \A k \in 1..Len(security) :
               /\ security[k].type \in {"warning", "info"}
               /\ security[k].message # <<>>

\* C20 witness: six inline scripts and the finding is returned.
C20_Witness ==
    /\ secPc = "done"
    /\ secDoc.inlineScripts = 6
    /\ Len(SelectSeq(security, IsInlineFinding)) = 1

\* C21. When the SIGTERM handler calls exit, every browser process this
\* server launched has been closed, no launch is still in progress, and no
\* page is left open.
C21_NoBrowserLeftOpen ==
    shutdown = "exited" =>
        /\ launched \subseteq closedBrowsers
        /\ \A p \in Procs : pc[p] # "launching"
        /\ \A r \in Requests : pageOpen[r] \notin {"open", "unknown"}

ExtractorOps ==
    {"page.$eval", "page.$$eval", "detectTrackers", "extractLayout",
     "analyzeSEO", "page.evaluate", "checkAccessibility", "checkSecurity"}

\* C22. In every request, the scoring step starts only after the seven
\* extractors (technology, trackers, layout, SEO, performance, accessibility,
\* security) have run, and an extractor runs only after the navigation has
\* succeeded and the screenshot and the content have been taken.
C22_ExtractorsBeforeScore ==
    \A r \in Requests :
        /\ \A k \in At(r, "calculateSEOScore") :
               \A op \in ExtractorOps : \E j \in At(r, op) : j < k
        /\ \A op \in ExtractorOps :
               \A j \in At(r, op) :
                   /\ loadSuccess[r]
                   /\ \E k \in At(r, "page.screenshot") : k < j
                   /\ \E k \in At(r, "page.content") : k < j

\* C23. A request that has left the handler was answered with exactly one
\* response, and no request is ever answered twice.
C23_ExactlyOneResponse ==
    \A r \in Requests :
        /\ Len(responses[r]) <= 1
        /\ Ended(r) => Len(responses[r]) = 1

NetErrorTypes == {"DNS Error", "Connection Refused", "SSL Certificate Error"}

\* C24. When the three navigation attempts of a request have failed, the
\* error raised is the synthesized "Unable to load <url>" message and the
\* error type of the response is computed from it alone: the generic
\* "Failed to analyze website" for a URL without a keyword ("Timeout Error"
\* for a URL that contains "timeout"), whatever the page.goto calls rejected
\* with; no response of such a request has a DNS, connection or certificate
\* type.
C24_NavErrorsDiscarded ==
    /\ errorType(UnableToLoad(<<"https", ":", "/", "/", "timeout">>))
           = "Timeout Error"
    /\ \A r \in Requests :
           (pc[r] \in {"catchClose", "done", "rejected"}
                /\ ~loadSuccess[r] /\ page[r] # None
                /\ NavigationFailed(r)) =>
               /\ error[r] = UnableToLoad(targetUrl[r])
               /\ \A k \in 1..Len(responses[r]) :
                      /\ responses[r][k].error =
                             errorType(UnableToLoad(targetUrl[r]))
                      /\ responses[r][k].error = "Failed to analyze website"
                      /\ responses[r][k].error \notin NetErrorTypes

\* C24 witness: the three attempts failed and the request was answered with
\* the generic error type.
C24_Witness ==
    \E r \in Requests :
        /\ NavigationFailed(r)
        /\ Len(responses[r]) = 1
        /\ responses[r][1].error = "Failed to analyze website"
        /\ responses[r][1].technicalDetails = UnableToLoad(targetUrl[r])

\* C25. normalizeUrl is idempotent: applied to a string it returned, it
\* returns that string again.
C25_Idempotent == urlPc = "again" => urlOutput = urlInput

\* C26. For non-negative integer counts the deductions of calculateSEOScore
\* add up to at most 90: the score is at least 10 and is the unclamped
\* 100 - D, the floor at 0 never applies.
C26_ScoreAtLeastTen ==
    ScoreCalled =>
        /\ SumSeq(Deductions(seo, layout)) <= 90
        /\ \A i \in 1..Len(seoResult) :
               /\ seoResult[i].score >= 10
               /\ seoResult[i].score = 100 - SumSeq(Deductions(seo, layout))

\* C26 witness: the lowest score: the eight rules that can fire together all
\* fired (no H1 excludes several H1), the image penalty at its cap.
C26_Witness ==
    /\ ScoreCalled
    /\ Len(seoResult[1].issues) = 8
    /\ seo.h1Count = 0
    /\ seo.imagesWithoutAlt = MaxImages
    /\ seoResult[1].score = 10

\* No heading is more than one level below the heading before it.
NoIncreaseOverOne(headings) ==
    \A i \in 1..(Len(headings) - 1) : headings[i + 1] - headings[i] <= 1

\* C27. checkAccessibility reports a heading skip only for an increase of
\* more than one level between consecutive headings: a decrease of any size
\* and a first heading deeper than level 1 never produce the issue.
C27_OnlyIncreasesSkip ==
    (a11yPc = "done" /\ NoIncreaseOverOne(a11yDoc.headings)) =>
        \A k \in 1..Len(accessibility) : ~IsSkipIssue(accessibility[k])

\* C27 witness: a first heading of level 4 followed by a level 1 heading,
\* and no skip is reported.
C27_Witness ==
    /\ a11yPc = "done"
    /\ a11yDoc.headings = <<4, 1>>
    /\ a11yDoc.lang /\ a11yDoc.imgWithoutAlt = 0 /\ a11yDoc.linksWithoutHref = 0
    /\ accessibility = <<>>

\* C28 (violated by the code): selectedForCompare holds at most two ids,
\* pairwise distinct, and the Compare button is enabled only when two
\* different scans are selected.
C28_SelectionDistinct ==
    /\ Len(selectedForCompare) <= 2
    /\ \A i, j \in 1..Len(selectedForCompare) :
           i # j => selectedForCompare[i] # selectedForCompare[j]
    /\ dom.compareEnabled =>
           /\ Len(selectedForCompare) = 2
           /\ selectedForCompare[1] # selectedForCompare[2]

\* C29 (violated by the code): every id in selectedForCompare is the id of
\* an entry stored in history, so an enabled Compare button has both of its
\* scans in history and startComparison never fails to load them.
C29_SelectionStored ==
    /\ \A k \in 1..Len(selectedForCompare) :
           InSeq(selectedForCompare[k], Ids(history))
    /\ dom.compareEnabled =>
           /\ Len(selectedForCompare) = 2
           /\ \A k \in 1..2 : InSeq(selectedForCompare[k], Ids(history))
    /\ dom.comparison # "failed"

\* C30: the stored history holds at most MAX_HISTORY entries, newest first,
\* each with its screenshot removed; a save into a full history puts the new
\* entry at the front and drops exactly the oldest one.
C30_HistoryBounded ==
    /\ [](/\ Len(history) <= MAX_HISTORY
          /\ \A k \in 1..Len(history) :
                 /\ history[k].screenshot = "null"
                 /\ k > 1 => history[k - 1].id > history[k].id)
    /\ [][(Len(history) = MAX_HISTORY /\ clock' # clock) =>
              /\ Len(history') = MAX_HISTORY
              /\ history'[1].id = clock'
              /\ \A k \in 2..MAX_HISTORY : history'[k] = history[k - 1]]_vars

\* C30 witness: a full history whose oldest entries have been dropped by
\* later saves.
C30_Witness ==
    /\ Len(history) = MAX_HISTORY
    /\ history[MAX_HISTORY].id > 1
    /\ history[1].id = clock
    /\ deletions = 0

====
